---- MODULE Spec2Model ----
(***************************************************************************)
(* Model of rust-macos-open (src/src/lib.rs): the conversion of strings    *)
(* and paths to Core Foundation URL handles (Openable / MultiOpenable),    *)
(* the launch functions open / open_complex, the acceptance checks and the *)
(* application lookups.  Core Foundation, Launch Services, Spotlight, the  *)
(* url crate and the file system are the environment: each framework call  *)
(* is answered by a value drawn from the answers the framework can give,   *)
(* and every call made is recorded in `calls`.                             *)
(***************************************************************************)
EXTENDS Integers, Sequences, FiniteSets, TLC

VARIABLES
    fs,      \* the file system: what each path names
    op,      \* the public function the caller last called ("idle": none)
    args,    \* the arguments of that call
    result,  \* what the call returned
    calls    \* the framework calls the call made, in order

vars == <<fs, op, args, result, calls>>

-----------------------------------------------------------------------------
(* Bounds *)

\* longest slice / Vec of urls a caller passes
MaxUrls == 2
\* longest list of applications a framework answer holds
MaxApps == 2

-----------------------------------------------------------------------------
(* Option<T> and Result<T, E> *)

None == [some |-> FALSE]
Some(x) == [some |-> TRUE, val |-> x]
Ok(x) == [ok |-> TRUE, val |-> x]
Err(e) == [ok |-> FALSE, err |-> e]

\* every sequence over S of length lo..hi
SeqsBetween(S, lo, hi) == UNION {[1..n -> S] : n \in lo..hi}

-----------------------------------------------------------------------------
(* The strings and paths of the model *)

S_google == "https://www.google.com/"
S_nonascii == "http://github.com?q=<U+FF4E>"
S_nonascii_norm == "http://github.com/?q=%EF%BD%8E"
S_badhost == "http://a b/"
S_badport == "http://h:99999/"
S_rel == "notes.txt"
S_canon == "/cwd/notes.txt"
S_abs == "/Applications/Safari.app"
S_empty == ""
S_space == "a b"
S_http_scheme == "http://"
S_mailto_scheme == "mailto://"
S_space_scheme == "a b://"

Strings == {S_google, S_nonascii, S_badhost, S_badport, S_rel, S_abs, S_empty, S_space}
Paths == {S_rel, S_abs, S_empty}
Schemes == {"http", "mailto", "a b"}
FsPaths == {S_rel, S_abs}
FsKinds == {"none", "file", "dir", "unresolvable"}

\* a value of a type implementing Openable: a string type or a path type
StrValue(s) == [ty |-> "str", v |-> s]
PathValue(p) == [ty |-> "path", v |-> p]
Values == {StrValue(s) : s \in Strings} \cup {PathValue(p) : p \in Paths}
\* the values callers put in url lists
UrlValues == {StrValue(S_google), StrValue(S_rel), PathValue(S_rel)}
\* a value of a type implementing MultiOpenable: one value, or a slice / Vec
One(v) == [multi |-> FALSE, v |-> v]
Many(vs) == [multi |-> TRUE, vs |-> vs]
MultiValues == {One(v) : v \in UrlValues} \cup {Many(vs) : vs \in SeqsBetween(UrlValues, 0, MaxUrls)}

-----------------------------------------------------------------------------
(* The environment: url crate, std::path / std::fs, Core Foundation *)

\* url::Url::parse: Ok(normalised serialisation) or Err(ParseError)
UrlParse(s) ==
    CASE s = S_google -> Ok(S_google)
      [] s = S_nonascii -> Ok(S_nonascii_norm)
      [] s = S_mailto_scheme -> Ok(S_mailto_scheme)
      [] s = S_badhost -> Err("InvalidDomainCharacter")
      [] s = S_badport -> Err("InvalidPort")
      [] s = S_http_scheme -> Err("EmptyHost")
      [] OTHER -> Err("RelativeUrlWithoutBase")

\* what a path names in the file system ("unresolvable": it is there for
\* exists() and gone, or unreadable, for canonicalize())
Kind(p) ==
    IF p \in DOMAIN fs THEN fs[p]
    ELSE IF p = S_canon /\ fs[S_rel] \in {"file", "dir"} THEN fs[S_rel]
    ELSE "none"

exists(p) == Kind(p) # "none"
is_dir(p) == Kind(p) = "dir"
is_relative(p) == p \notin {S_abs, S_canon}
canonicalize(p) ==
    IF Kind(p) \in {"file", "dir"}
    THEN Ok(IF p = S_rel THEN S_canon ELSE p)
    ELSE Err("io")

\* the strings CFURLCreateWithString rejects with a null pointer
NullStrings == {S_empty, S_space, S_badhost, S_nonascii, S_space_scheme}

StringHandle(s) == [kind |-> "string", text |-> s]
FileHandle(p, d) == [kind |-> "file", path |-> p, isDir |-> d]

\* CFURLCreateWithString(kCFAllocatorDefault, s, NULL): a handle or null
CFURLCreateWithString(s) == IF s \in NullStrings THEN None ELSE Some(StringHandle(s))

\* CFURL::from_path(path, isDirectory): null for the empty path
from_path(p, d) == IF p = S_empty THEN None ELSE Some(FileHandle(p, d))

-----------------------------------------------------------------------------
(* Openable *)

_url(value) == CFURLCreateWithString(value)

RECURSIVE path_into_openable(_)
path_into_openable(self) ==
    IF is_relative(self)
    THEN LET c == canonicalize(self)
         IN IF c.ok THEN path_into_openable(c.val) ELSE None
    ELSE from_path(self, is_dir(self))

\* url with the parsed form dropped: the raw string is used in every case
url_raw(value) ==
    LET parsed == UrlParse(value)
    IN IF parsed.ok THEN _url(value)
       ELSE IF parsed.err = "RelativeUrlWithoutBase"
            THEN IF exists(value) THEN path_into_openable(value) ELSE _url(value)
            ELSE _url(value)

url(value) ==
    LET parsed == UrlParse(value)
    IN IF parsed.ok THEN _url(parsed.val)
       ELSE IF parsed.err = "RelativeUrlWithoutBase"
            THEN IF exists(value) THEN path_into_openable(value) ELSE _url(value)
            ELSE _url(value)

into_openable(x) == IF x.ty = "str" THEN url(x.v) ELSE path_into_openable(x.v)

-----------------------------------------------------------------------------
(* MultiOpenable *)

\* the loop with each converted url put in front of the ones before it
RECURSIVE vec_into_openable_prepend(_, _)
vec_into_openable_prepend(els, res) ==
    IF els = <<>> THEN Some(res)
    ELSE LET c == into_openable(Head(els))
         IN IF ~c.some THEN None
            ELSE vec_into_openable_prepend(Tail(els), <<c.val>> \o res)

\* the loop of the Vec / slice impls: the first element that does not convert
\* ends it with None
RECURSIVE vec_into_openable(_, _)
vec_into_openable(els, res) ==
    IF els = <<>> THEN Some(res)
    ELSE LET c == into_openable(Head(els))
         IN IF ~c.some THEN None
            ELSE vec_into_openable(Tail(els), Append(res, c.val))

\* the impl for one value: a one-element array, or None
type_into_openable(v) ==
    LET c == into_openable(v)
    IN IF ~c.some THEN None ELSE Some(<<c.val>>)

multi_into_openable(urls) ==
    IF urls.multi THEN vec_into_openable(urls.vs, <<>>) ELSE type_into_openable(urls.v)

-----------------------------------------------------------------------------
(* Launch Services answers and std::io::Error *)

\* a CFURL the framework hands back; to_path() is its file-system path, if any
AppUrl(p) == [path |-> p]
to_path(u) == u.path
AppUrls == {AppUrl(Some(S_abs)), AppUrl(None)}
AppLists == SeqsBetween(AppUrls, 0, MaxApps)

\* OSStatus values other than noErr
StatusCodes == {-10814, -50}
LaunchAnswers == {Ok(u) : u \in AppUrls} \cup {Err(c) : c \in StatusCodes}
LaunchFlags == {"DEFAULTS", "NEW_INSTANCE"}

\* Error::new(ErrorKind::Other, text)
OtherError(text) == [kind |-> "Other", text |-> text]
\* Error::new(ErrorKind::Other, format!("return code {}", code))
ReturnCodeError(code) == [kind |-> "Other", text |-> "return code {}", code |-> code]

Call(fn, arg, ret) == [fn |-> fn, arg |-> arg, ret |-> ret]
Returned(res, cs) == [res |-> res, calls |-> cs]

-----------------------------------------------------------------------------
(* open and open_complex; `answer` is what the launch service answers if called *)

\* open with the status code of a failed launch dropped
open_ignoring_status(value, answer) ==
    LET c == into_openable(value)
    IN IF c.some
       THEN Returned(IF answer.ok THEN Ok(to_path(answer.val)) ELSE Ok(None),
                     <<Call("open_url", c.val, answer)>>)
       ELSE Returned(Err(OtherError("Provided url is not openable")), <<>>)

open(value, answer) ==
    LET c == into_openable(value)
    IN IF c.some
       THEN Returned(IF answer.ok THEN Ok(to_path(answer.val))
                     ELSE Err(ReturnCodeError(answer.err)),
                     <<Call("open_url", c.val, answer)>>)
       ELSE Returned(Err(OtherError("Provided url is not openable")), <<>>)

remap_app(app) ==
    IF app.some
    THEN LET r == from_path(app.val, TRUE)
         IN IF ~r.some THEN Err(OtherError("Provided app url is not valid")) ELSE Ok(r)
    ELSE Ok(None)

remap_multiopenable(urls) ==
    IF urls.some
    THEN LET r == multi_into_openable(urls.val)
         IN IF ~r.some THEN Err(OtherError("Provided urls are not valid")) ELSE Ok(r)
    ELSE Ok(None)

\* LSLaunchURLSpec { app, urls, flags, ..Default::default() }
LSLaunchURLSpec(app, urls, flags) == [app |-> app, urls |-> urls, flags |-> flags]

\* open_complex with the urls converted before the app
open_complex_urls_first(app, urls, flags, answer) ==
    LET u == remap_multiopenable(urls)
    IN IF ~u.ok THEN Returned(Err(u.err), <<>>)
       ELSE LET a == remap_app(app)
            IN IF ~a.ok THEN Returned(Err(a.err), <<>>)
               ELSE Returned(IF answer.ok THEN Ok(to_path(answer.val))
                             ELSE Err(ReturnCodeError(answer.err)),
                             <<Call("open_from_url_spec",
                                    LSLaunchURLSpec(a.val, u.val, flags), answer)>>)

open_complex(app, urls, flags, answer) ==
    LET a == remap_app(app)
    IN IF ~a.ok THEN Returned(Err(a.err), <<>>)
       ELSE LET u == remap_multiopenable(urls)
            IN IF ~u.ok THEN Returned(Err(u.err), <<>>)
               ELSE Returned(IF answer.ok THEN Ok(to_path(answer.val))
                             ELSE Err(ReturnCodeError(answer.err)),
                             <<Call("open_from_url_spec",
                                    LSLaunchURLSpec(a.val, u.val, flags), answer)>>)

-----------------------------------------------------------------------------
(* Acceptance checks; acc[<<app, url>>] is what can_url_accept_url answers *)

AccAnswers == {Ok(TRUE), Ok(FALSE)} \cup {Err(c) : c \in StatusCodes}

AcceptCall(u, app, answer) ==
    Call("can_url_accept_url",
         [url |-> u, app |-> app, role |-> "VIEWER", flags |-> "DEFAULT"], answer)

app_accept_url(app, value, acc) ==
    LET a == from_path(app, TRUE)
    IN IF a.some
       THEN LET c == into_openable(value)
            IN IF ~c.some THEN Returned(FALSE, <<>>)
               ELSE LET answer == acc[<<a.val, c.val>>]
                    IN Returned(IF ~answer.ok THEN FALSE ELSE answer.val,
                                <<AcceptCall(c.val, a.val, answer)>>)
       ELSE Returned(FALSE, <<>>)

\* the scan with an error of the acceptance check taken as acceptance
RECURSIVE any_not_accepted_err_ok(_, _, _, _)
any_not_accepted_err_ok(us, app, acc, cs) ==
    IF us = <<>> THEN Returned(FALSE, cs)
    ELSE LET answer == acc[<<app, Head(us)>>]
             v == IF ~answer.ok THEN TRUE ELSE answer.val
             cs2 == Append(cs, AcceptCall(Head(us), app, answer))
         IN IF ~v THEN Returned(TRUE, cs2)
            ELSE any_not_accepted_err_ok(Tail(us), app, acc, cs2)

\* urls.iter().map(check).any(|v| !v): stops at the first url not accepted
RECURSIVE any_not_accepted(_, _, _, _)
any_not_accepted(us, app, acc, cs) ==
    IF us = <<>> THEN Returned(FALSE, cs)
    ELSE LET answer == acc[<<app, Head(us)>>]
             v == IF ~answer.ok THEN FALSE ELSE answer.val
             cs2 == Append(cs, AcceptCall(Head(us), app, answer))
         IN IF ~v THEN Returned(TRUE, cs2)
            ELSE any_not_accepted(Tail(us), app, acc, cs2)

app_accept_urls(app, urls, acc) ==
    LET a == from_path(app, TRUE)
    IN IF a.some
       THEN LET c == multi_into_openable(urls)
            IN IF ~c.some THEN Returned(FALSE, <<>>)
               ELSE LET r == any_not_accepted(c.val, a.val, acc, <<>>)
                    IN Returned(~r.res, r.calls)
       ELSE Returned(FALSE, <<>>)

\* the answers the acceptance check may give for one call of these functions
SeqRange(s) == {s[i] : i \in DOMAIN s}
AppHandles(apps) == {from_path(p, TRUE).val : p \in {q \in apps : from_path(q, TRUE).some}}
UrlHandles(urls) ==
    LET c == multi_into_openable(urls) IN IF c.some THEN SeqRange(c.val) ELSE {}
AccFunctions(apps, handles) == [AppHandles(apps) \X handles -> AccAnswers]

-----------------------------------------------------------------------------
(* Lookups *)

\* iter().filter_map(|v| v.to_path()).collect()
RECURSIVE filter_map_to_path(_)
filter_map_to_path(us) ==
    IF us = <<>> THEN <<>>
    ELSE LET p == to_path(Head(us))
         IN (IF p.some THEN <<p.val>> ELSE <<>>) \o filter_map_to_path(Tail(us))

\* format!("{}://", scheme)
SchemeUrl(scheme) ==
    CASE scheme = "http" -> S_http_scheme
      [] scheme = "mailto" -> S_mailto_scheme
      [] scheme = "a b" -> S_space_scheme

\* `answer`: what application_urls_for_url gives, an Option of a list
apps_for_scheme(scheme, answer) ==
    LET c == url(SchemeUrl(scheme))
    IN IF ~c.some THEN Returned(None, <<>>)
       ELSE Returned(IF ~answer.some THEN None ELSE Some(filter_map_to_path(answer.val)),
                     <<Call("application_urls_for_url",
                            [url |-> c.val, role |-> "VIEWER"], answer)>>)

BundleIds == {"com.apple.safari", "com.google.chrome"}

\* `answer`: what application_urls_for_bundle_identifier gives, a Result of a list
apps_for_bundle_id(bundle_id, answer) ==
    Returned(IF answer.ok THEN Some(filter_map_to_path(answer.val)) ELSE None,
             <<Call("application_urls_for_bundle_identifier", bundle_id, answer)>>)

MQ_STRING_SPECIAL_CHARS == {"?", "*", "\\", "\""}

\* app_name.transformed(Escaper::new('\\', &MQ_STRING_SPECIAL_CHARS)), a name
\* being a sequence of characters
RECURSIVE Escape(_)
Escape(name) ==
    IF name = <<>> THEN <<>>
    ELSE (IF Head(name) \in MQ_STRING_SPECIAL_CHARS THEN <<"\\", Head(name)>> ELSE <<Head(name)>>)
         \o Escape(Tail(name))

QueryString(app_name) ==
    <<"kMDItemContentTypeTree == \"com.apple.application\"c && kMDItemDisplayName == \"">>
    \o Escape(app_name) \o <<"\"cd">>

Names == {<<"S", "a", "f">>, <<"S", "*", "\"">>}

\* a Spotlight result item; get(attributes::Path) is its path attribute, if any
Item(p) == [path |-> p]
Items == {Item(Some(S_abs)), Item(None)}
QueryAnswers == {None} \cup {Some(l) : l \in SeqsBetween(Items, 0, MaxApps)}

\* query.iter().filter_map(|v| v.get(Path).map(PathBuf::from)).collect()
RECURSIVE filter_map_path_attr(_)
filter_map_path_attr(items) ==
    IF items = <<>> THEN <<>>
    ELSE LET p == Head(items).path
         IN (IF p.some THEN <<p.val>> ELSE <<>>) \o filter_map_path_attr(Tail(items))

\* `query`: what MDQuery::new gives (None: no query) and, executed, iterates over
apps_for_name(app_name, query) ==
    LET cs == <<Call("MDQuery::new", QueryString(app_name), query)>>
    IN IF ~query.some THEN Returned(None, cs)
       ELSE LET res == filter_map_path_attr(query.val)
            IN Returned(IF Len(res) = 0 THEN None ELSE Some(res), cs)

\* apps.into_iter().filter(|v| app_accept_urls(v, urls)).collect()
RECURSIVE filter_accepting(_, _, _)
filter_accepting(apps, urls, acc) ==
    IF apps = <<>> THEN Returned(<<>>, <<>>)
    ELSE LET r == app_accept_urls(Head(apps), urls, acc)
             rest == filter_accepting(Tail(apps), urls, acc)
         IN Returned((IF r.res THEN <<Head(apps)>> ELSE <<>>) \o rest.res,
                     r.calls \o rest.calls)

apps_for_name_accepting_urls(name, urls, query, acc) ==
    LET found == apps_for_name(name, query)
    IN IF ~found.res.some THEN Returned(None, found.calls)
       ELSE LET f == filter_accepting(found.res.val, urls, acc)
            IN Returned(IF f.res = <<>> THEN None ELSE Some(f.res), found.calls \o f.calls)

apps_for_bundle_id_accepting_urls(bundle_id, urls, answer, acc) ==
    LET found == apps_for_bundle_id(bundle_id, answer)
    IN IF ~found.res.some THEN Returned(None, found.calls)
       ELSE LET f == filter_accepting(found.res.val, urls, acc)
            IN Returned(IF f.res = <<>> THEN None ELSE Some(f.res), found.calls \o f.calls)

-----------------------------------------------------------------------------
(* The state machine: one action per public function, and the caller's return *)

Idle == [none |-> TRUE]

Init ==
    /\ fs \in {f \in [FsPaths -> FsKinds] : f[S_abs] \in {"none", "dir"}}
    /\ op = "idle"
    /\ args = Idle
    /\ result = Idle
    /\ calls = <<>>

\* the state after a call
Called(name, a, r) ==
    /\ op' = name
    /\ args' = a
    /\ result' = r.res
    /\ calls' = r.calls
    /\ UNCHANGED fs

CallIntoOpenable ==
    /\ op = "idle"
    /\ \E x \in Values :
        Called("into_openable", [value |-> x], Returned(into_openable(x), <<>>))

CallOpen ==
    /\ op = "idle"
    /\ \E x \in Values, answer \in LaunchAnswers :
        Called("open", [url |-> x, answer |-> answer], open(x, answer))

AppArgs == {None, Some(S_abs), Some(S_empty)}
UrlsArgs == {None} \cup {Some(u) : u \in MultiValues}

CallOpenComplex ==
    /\ op = "idle"
    /\ \E app \in AppArgs, urls \in UrlsArgs, flags \in LaunchFlags, answer \in LaunchAnswers :
        Called("open_complex",
               [app |-> app, urls |-> urls, flags |-> flags, answer |-> answer],
               open_complex(app, urls, flags, answer))

AppPaths == {S_abs, S_empty}

CallAppAcceptUrl ==
    /\ op = "idle"
    /\ \E app \in AppPaths, x \in Values :
        \E acc \in AccFunctions({app}, UrlHandles(One(x))) :
            Called("app_accept_url", [app |-> app, url |-> x, acc |-> acc],
                   app_accept_url(app, x, acc))

CallAppAcceptUrls ==
    /\ op = "idle"
    /\ \E app \in AppPaths, urls \in MultiValues :
        \E acc \in AccFunctions({app}, UrlHandles(urls)) :
            Called("app_accept_urls", [app |-> app, urls |-> urls, acc |-> acc],
                   app_accept_urls(app, urls, acc))

CallAppsForScheme ==
    /\ op = "idle"
    /\ \E scheme \in Schemes, answer \in {None} \cup {Some(l) : l \in AppLists} :
        Called("apps_for_scheme", [scheme |-> scheme, answer |-> answer],
               apps_for_scheme(scheme, answer))

BundleAnswers == {Ok(l) : l \in AppLists} \cup {Err(c) : c \in StatusCodes}

CallAppsForBundleId ==
    /\ op = "idle"
    /\ \E bundle_id \in BundleIds, answer \in BundleAnswers :
        Called("apps_for_bundle_id", [bundle_id |-> bundle_id, answer |-> answer],
               apps_for_bundle_id(bundle_id, answer))

CallAppsForName ==
    /\ op = "idle"
    /\ \E name \in Names, query \in QueryAnswers :
        Called("apps_for_name", [name |-> name, query |-> query],
               apps_for_name(name, query))

CallAppsForNameAcceptingUrls ==
    /\ op = "idle"
    /\ \E name \in Names, urls \in MultiValues, query \in QueryAnswers :
        \E acc \in AccFunctions({S_abs}, UrlHandles(urls)) :
            Called("apps_for_name_accepting_urls",
                   [name |-> name, urls |-> urls, query |-> query, acc |-> acc],
                   apps_for_name_accepting_urls(name, urls, query, acc))

CallAppsForBundleIdAcceptingUrls ==
    /\ op = "idle"
    /\ \E bundle_id \in BundleIds, urls \in MultiValues, answer \in BundleAnswers :
        \E acc \in AccFunctions({S_abs}, UrlHandles(urls)) :
            Called("apps_for_bundle_id_accepting_urls",
                   [bundle_id |-> bundle_id, urls |-> urls, answer |-> answer, acc |-> acc],
                   apps_for_bundle_id_accepting_urls(bundle_id, urls, answer, acc))

\* the caller takes the result; the library keeps no state between calls
Return ==
    /\ op # "idle"
    /\ op' = "idle"
    /\ args' = Idle
    /\ result' = Idle
    /\ calls' = <<>>
    /\ UNCHANGED fs

Next ==
    \/ CallIntoOpenable
    \/ CallOpen
    \/ CallOpenComplex
    \/ CallAppAcceptUrl
    \/ CallAppAcceptUrls
    \/ CallAppsForScheme
    \/ CallAppsForBundleId
    \/ CallAppsForName
    \/ CallAppsForNameAcceptingUrls
    \/ CallAppsForBundleIdAcceptingUrls
    \/ Return

Spec == Init /\ [][Next]_vars
-----------------------------------------------------------------------------
(* What the claims are stated with: the caller's values, element by element *)

\* the values of a MultiOpenable argument, in the caller's order
Elements(urls) == IF urls.multi THEN urls.vs ELSE <<urls.v>>
AllConvert(urls) == \A i \in DOMAIN Elements(urls) : into_openable(Elements(urls)[i]).some
HandlesInOrder(urls) ==
    [i \in DOMAIN Elements(urls) |-> into_openable(Elements(urls)[i]).val]

AppInvalid == args.app.some /\ ~from_path(args.app.val, TRUE).some
UrlsInvalid == args.urls.some /\ ~AllConvert(args.urls.val)

\* C1: when the supplied app and urls convert, open_complex calls
\* open_from_url_spec once with a launch spec that has an app iff the caller
\* supplied one (the handle of that path, as a directory), a URL list iff the
\* caller supplied one (the handles of the caller's urls, in the caller's
\* order), and the caller's flags unchanged.
C1_LaunchSpecIsCallersChoice ==
    (op = "open_complex" /\ ~AppInvalid /\ ~UrlsInvalid) =>
        /\ Len(calls) = 1
        /\ calls[1].fn = "open_from_url_spec"
        /\ calls[1].arg.app.some = args.app.some
        /\ args.app.some => calls[1].arg.app.val = FileHandle(args.app.val, TRUE)
        /\ calls[1].arg.urls.some = args.urls.some
        /\ args.urls.some => calls[1].arg.urls.val = HandlesInOrder(args.urls.val)
        /\ calls[1].arg.flags = args.flags

\* an app and two different urls, all converting, reached the launch service
C1_Witness ==
    /\ op = "open_complex"
    /\ args.app = Some(S_abs)
    /\ args.urls = Some(Many(<<StrValue(S_rel), StrValue(S_google)>>))
    /\ args.flags = "NEW_INSTANCE"
    /\ Len(calls) = 1
    /\ calls[1].arg.urls = Some(<<StringHandle(S_rel), StringHandle(S_google)>>)

\* C2: open returns an error without calling the launch service when the value
\* does not convert; when it converts, open_url is called exactly once with the
\* converted handle, the result is Ok iff the service answers success, and a
\* status code becomes an error of kind Other carrying that code.
C2_OpenCallsOnceOrFails ==
    op = "open" =>
        LET c == into_openable(args.url)
        IN /\ ~c.some => (~result.ok /\ calls = <<>>)
           /\ c.some =>
                /\ Len(calls) = 1
                /\ calls[1].fn = "open_url"
                /\ calls[1].arg = c.val
                /\ result.ok = args.answer.ok
                /\ ~args.answer.ok =>
                      (result.err.kind = "Other" /\ result.err.code = args.answer.err)

\* a converted url whose launch the service refused with a status code
C2_Witness ==
    /\ op = "open"
    /\ args.url = StrValue(S_nonascii)
    /\ Len(calls) = 1
    /\ ~result.ok
    /\ result.err.code = -10814

\* C3: open_complex reports an invalid app as 'Provided app url is not valid',
\* otherwise invalid urls as 'Provided urls are not valid', the app first, and
\* in both cases calls nothing; with nothing invalid (absent counts as valid)
\* the launch service is called and the only error is its status code.
C3_InvalidInputNeverLaunched ==
    op = "open_complex" =>
        /\ AppInvalid =>
              (result = Err(OtherError("Provided app url is not valid")) /\ calls = <<>>)
        /\ (~AppInvalid /\ UrlsInvalid) =>
              (result = Err(OtherError("Provided urls are not valid")) /\ calls = <<>>)
        /\ (~AppInvalid /\ ~UrlsInvalid) =>
              (Len(calls) = 1 /\ (~result.ok => result.err = ReturnCodeError(args.answer.err)))

\* both the app and the urls are invalid, and the app error is the one reported
C3_Witness ==
    /\ op = "open_complex"
    /\ AppInvalid
    /\ UrlsInvalid
    /\ result = Err(OtherError("Provided app url is not valid"))
    /\ calls = <<>>

\* C4: app_accept_urls is true iff the app path converts, every url converts and
\* the acceptance check answers Ok(true) for every url; so with a converting
\* app an empty list gives true.
C4_AcceptsIffAllAccepted ==
    op = "app_accept_urls" =>
        LET a == from_path(args.app, TRUE)
            hs == HandlesInOrder(args.urls)
        IN /\ result = (/\ a.some
                        /\ AllConvert(args.urls)
                        /\ \A i \in DOMAIN hs : args.acc[<<a.val, hs[i]>>] = Ok(TRUE))
           /\ (a.some /\ Elements(args.urls) = <<>>) => result = TRUE

\* two converting urls, the first accepted and the second answered with an error
C4_Witness ==
    /\ op = "app_accept_urls"
    /\ args.app = S_abs
    /\ args.urls = Many(<<StrValue(S_google), StrValue(S_rel)>>)
    /\ Len(calls) = 2
    /\ calls[1].ret = Ok(TRUE)
    /\ ~calls[2].ret.ok
    /\ result = FALSE

ListLookups ==
    {"apps_for_scheme", "apps_for_bundle_id", "apps_for_name",
     "apps_for_name_accepting_urls", "apps_for_bundle_id_accepting_urls"}

\* C5: every lookup that returns an optional list of applications returns None
\* or a list with at least one element, whatever the framework answers.
C5_LookupNeverSomeEmpty ==
    op \in ListLookups => (result.some => Len(result.val) >= 1)

\* C6: a string converts by priority: parsed as an absolute URL, its normalised
\* form goes to CFURLCreateWithString; failing only as relative and naming an
\* existing path, it converts as a path (canonicalised once when relative, None
\* when that fails, the directory flag from the file system); otherwise the raw
\* string goes to CFURLCreateWithString.  A path value converts the same way,
\* and a canonicalised path is absolute, so one expansion is all there is.
PathOnce(p) ==
    IF is_relative(p)
    THEN IF canonicalize(p).ok
         THEN from_path(canonicalize(p).val, is_dir(canonicalize(p).val))
         ELSE None
    ELSE from_path(p, is_dir(p))

C6_StringResolutionPriority ==
    op = "into_openable" =>
        LET s == args.value.v
            parsed == UrlParse(s)
        IN /\ args.value.ty = "str" =>
                result = IF parsed.ok THEN CFURLCreateWithString(parsed.val)
                         ELSE IF parsed.err = "RelativeUrlWithoutBase" /\ exists(s)
                              THEN PathOnce(s)
                              ELSE CFURLCreateWithString(s)
           /\ args.value.ty = "path" => result = PathOnce(s)
           /\ canonicalize(s).ok => ~is_relative(canonicalize(s).val)

\* a relative string naming an existing directory became the handle of its
\* canonical path
C6_Witness ==
    /\ op = "into_openable"
    /\ args.value = StrValue(S_rel)
    /\ fs[S_rel] = "dir"
    /\ result = Some(FileHandle(S_canon, TRUE))
====
